---- MODULE Spec2Model ----
(***************************************************************************)
(* The event layout engine of the calendar view: calculateEventPositions   *)
(* of src/components/CustomCalendar.tsx.                                   *)
(*                                                                         *)
(* Time is counted in whole minutes since 00:00 of day 0 (local time), so  *)
(* the calendar date of an instant t is t \div 1440 and its                *)
(* getHours()*60+getMinutes() is t % 1440.  Pixel and percentage values    *)
(* are exact rationals [n, d] in lowest terms (the code computes them in   *)
(* floating point).                                                        *)
(***************************************************************************)
EXTENDS Integers, Sequences, FiniteSets, TLC

VARIABLES
    engine,        \* the JavaScript engine whose Array.prototype.sort runs
    now,           \* the ambient clock (new Date()), never read by the engine
    calls,         \* number of calls of calculateEventPositions made so far
    events,        \* argument events of the last call: [present, items]
    startHour,     \* argument startHour of the last call
    hourHeight,    \* argument hourHeight of the last call
    viewDate,      \* argument viewDate of the last call
    sortedEvents,  \* local sortedEvents of the last call
    groups,        \* local groups of the last call
    layouts,       \* local layouts of the last call (column, total, flags)
    raised,        \* TRUE when the last call threw instead of returning
    result,        \* the list returned by the last call
    first,         \* arguments and outcome of the first call
    props,         \* the events prop of the component: [present, items]
    currentView,   \* the component's state currentView
    currentDate,   \* the component's state currentDate
    passed,        \* the event lists passed to the engine by the last render
    handler,       \* the running handler of the component: [name, plan, pc]
    tasks,         \* the thunk invocations of the current run, by task number
    log            \* what the current run dispatched, called and settled

layoutVars == <<engine, now, calls, events, startHour, hourHeight, viewDate,
                sortedEvents, groups, layouts, raised, result, first,
                props, currentView, currentDate, passed>>

asyncVars == <<handler, tasks, log>>

vars == <<layoutVars, asyncVars>>

-----------------------------------------------------------------------------
(* Bounds of the model *)

MaxEvents == 3
MaxProjEvents == 2
MaxTwiceEvents == 2
MaxNow == 2
MaxCalls == 3
MaxViewEvents == 2
MaxRenders == 2
MaxParticipants == 1

(* Program constants *)

NoTime == -1
MinutesPerDay == 1440
DefaultDuration == 30
EndOfDayMinute == 1439
TickMinutes == 720
WeekLength == 7

Engines == {"v8", "spidermonkey"}

-----------------------------------------------------------------------------
(* Dates *)

HasTime(t) == t # NoTime

DateString(t) == t \div MinutesPerDay

MinutesOfDay(t) == t % MinutesPerDay

SetHoursEndOfDay(t) == DateString(t) * MinutesPerDay + EndOfDayMinute

(* Exact rationals *)

Abs(x) == IF x < 0 THEN 0 - x ELSE x

RECURSIVE GCD(_, _)
GCD(a, b) == IF b = 0 THEN a ELSE GCD(b, a % b)

Frac(n, d) ==
    LET g == GCD(Abs(n), d)
    IN  [n |-> n \div g, d |-> d \div g]

\* 100 / 0 is Infinity in the code; 0 * Infinity is NaN
Infinity == [n |-> 1, d |-> 0]
NaN == [n |-> 0, d |-> 0]

-----------------------------------------------------------------------------
(* Events *)

EffectiveEnd(ev) ==
    IF HasTime(ev.end) THEN ev.end ELSE ev.start + DefaultDuration

isMultiDayEvent(ev) ==
    IF ~HasTime(ev.start) \/ ~HasTime(ev.end) THEN FALSE
    ELSE DateString(ev.start) # DateString(ev.end)

\* the day read from the ambient clock in place of the argument
ViewDateString_clock(vd) == DateString(now)

ViewDateString(vd) == DateString(vd)

\* the guard of lines 115 and 125 without its test of event.end
SkipsFlag_startOnly(ev) == ~HasTime(ev.start)

\* the guard of lines 115 and 125: if (!event.start || !event.end) return false
SkipsFlag(ev) == ~HasTime(ev.start) \/ ~HasTime(ev.end)

\* format(date, "yyyy-MM-dd") throws RangeError for the Invalid Date that
\* new Date(undefined) is
FormatThrows(t) == ~HasTime(t)

\* the two flag helpers format event.start and event.end behind the guard
FlagsThrow(ev) ==
    ~SkipsFlag(ev) /\ (FormatThrows(ev.start) \/ FormatThrows(ev.end))

\* the flag without its test of isMultiDayEvent
isContinuedFromPreviousDay_anyEvent(ev, vd) ==
    IF SkipsFlag(ev) THEN FALSE
    ELSE DateString(ev.start) # ViewDateString(vd)

isContinuedFromPreviousDay(ev, vd) ==
    IF SkipsFlag(ev) THEN FALSE
    ELSE DateString(ev.start) # ViewDateString(vd) /\ isMultiDayEvent(ev)

continuesNextDay(ev, vd) ==
    IF SkipsFlag(ev) THEN FALSE
    ELSE DateString(ev.end) # ViewDateString(vd) /\ isMultiDayEvent(ev)

-----------------------------------------------------------------------------
(* The sort of line 134: events.slice().sort(comparator) *)

Compare(a, b) ==
    IF ~HasTime(a.start) \/ ~HasTime(b.start) THEN 0
    ELSE a.start - b.start

InsertAt(s, pos, item) ==
    SubSeq(s, 1, pos) \o <<item>> \o SubSeq(s, pos + 1, Len(s))

\* Insertion sort, the path SpiderMonkey takes for short arrays: an item
\* moves left past every element that compares greater
RECURSIVE LinearPos(_, _, _)
LinearPos(s, item, j) ==
    IF j = 0 THEN 0
    ELSE IF Compare(s[j], item) <= 0 THEN j
    ELSE LinearPos(s, item, j - 1)

RECURSIVE InsertionSort(_, _)
InsertionSort(s, i) ==
    IF i > Len(s) THEN s
    ELSE LET prefix == SubSeq(s, 1, i - 1)
             pos == LinearPos(prefix, s[i], i - 1)
         IN  InsertionSort(InsertAt(prefix, pos, s[i])
                               \o SubSeq(s, i + 1, Len(s)), i + 1)

\* V8's TimSort on an array shorter than its minimal run length:
\* CountAndMakeRun on the whole array, then BinaryInsertionSort of the rest
RECURSIVE RunEnd(_, _, _)
RunEnd(s, idx, descending) ==
    IF idx > Len(s) THEN idx - 1
    ELSE LET order == Compare(s[idx], s[idx - 1])
         IN  IF descending /\ order >= 0 THEN idx - 1
             ELSE IF ~descending /\ order < 0 THEN idx - 1
             ELSE RunEnd(s, idx + 1, descending)

Reverse(s) == [i \in 1..Len(s) |-> s[Len(s) + 1 - i]]

CountAndMakeRun(s) ==
    IF Len(s) < 2 THEN [run |-> Len(s), arr |-> s]
    ELSE LET descending == Compare(s[2], s[1]) < 0
             run == RunEnd(s, 3, descending)
         IN  [run |-> run,
              arr |-> IF descending
                      THEN Reverse(SubSeq(s, 1, run)) \o SubSeq(s, run + 1, Len(s))
                      ELSE s]

\* left and right are 0-based as in the engine: s[mid + 1] is workArray[mid]
RECURSIVE BinaryPos(_, _, _, _)
BinaryPos(s, pivot, left, right) ==
    IF left >= right THEN left
    ELSE LET mid == left + ((right - left) \div 2)
         IN  IF Compare(pivot, s[mid + 1]) < 0
             THEN BinaryPos(s, pivot, left, mid)
             ELSE BinaryPos(s, pivot, mid + 1, right)

RECURSIVE BinaryInsertionSort(_, _)
BinaryInsertionSort(s, i) ==
    IF i > Len(s) THEN s
    ELSE LET prefix == SubSeq(s, 1, i - 1)
             pos == BinaryPos(prefix, s[i], 0, i - 1)
         IN  BinaryInsertionSort(InsertAt(prefix, pos, s[i])
                                     \o SubSeq(s, i + 1, Len(s)), i + 1)

TimSort(s) ==
    LET r == CountAndMakeRun(s)
    IN  BinaryInsertionSort(r.arr, r.run + 1)

SortEvents(eng, items) ==
    IF Len(items) < 2 THEN items
    ELSE IF eng = "v8" THEN TimSort(items)
    ELSE InsertionSort(items, 2)

-----------------------------------------------------------------------------
(* Cluster grouping, lines 141-177 *)

\* the overlap test with <= and >=: touching intervals count as overlapping
Overlaps_touching(event, ev) ==
    IF ~HasTime(ev.start) THEN FALSE
    ELSE event.start <= EffectiveEnd(ev) /\ EffectiveEnd(event) >= ev.start

Overlaps(event, ev) ==
    IF ~HasTime(ev.start) THEN FALSE
    ELSE event.start < EffectiveEnd(ev) /\ EffectiveEnd(event) > ev.start

OverlapsGroup(event, currentGroup) ==
    \E k \in 1..Len(currentGroup) : Overlaps(event, currentGroup[k])

RECURSIVE GroupWalk(_, _, _, _)
GroupWalk(sorted, i, gs, currentGroup) ==
    IF i > Len(sorted) THEN [groups |-> gs, currentGroup |-> currentGroup]
    ELSE LET event == sorted[i]
         IN  IF ~HasTime(event.start)
             THEN GroupWalk(sorted, i + 1, gs, currentGroup)
             ELSE IF Len(currentGroup) = 0
             THEN GroupWalk(sorted, i + 1, gs, <<event>>)
             ELSE IF OverlapsGroup(event, currentGroup)
             THEN GroupWalk(sorted, i + 1, gs, Append(currentGroup, event))
             ELSE GroupWalk(sorted, i + 1, Append(gs, currentGroup), <<event>>)

\* the walk without the final push of lines 175-177
BuildGroups_noFinalPush(sorted) ==
    GroupWalk(sorted, 1, <<>>, <<>>).groups

BuildGroups(sorted) ==
    LET w == GroupWalk(sorted, 1, <<>>, <<>>)
    IN  IF Len(w.currentGroup) > 0
        THEN Append(w.groups, w.currentGroup)
        ELSE w.groups

-----------------------------------------------------------------------------
(* Column packing, lines 188-235.  columns[i + 1] is the code's columns[i] *)

\* the reuse test with > in place of >=
FitsAfter_strict(event, lastEvent) == event.start > EffectiveEnd(lastEvent)

FitsAfter(event, lastEvent) == event.start >= EffectiveEnd(lastEvent)

RECURSIVE FirstFit(_, _, _)
FirstFit(columns, event, i) ==
    IF i > Len(columns) THEN 0
    ELSE IF ~HasTime(columns[i].start) THEN FirstFit(columns, event, i + 1)
    ELSE IF FitsAfter(event, columns[i]) THEN i
    ELSE FirstFit(columns, event, i + 1)

NewLayout(event, column, vd) ==
    [event |-> event,
     column |-> column,
     total |-> 0,
     isMultiDay |-> isMultiDayEvent(event),
     continuesNextDay |-> continuesNextDay(event, vd),
     continuesFromPrevDay |-> isContinuedFromPreviousDay(event, vd)]

\* the length after the push taken as the index of the new column
PushedColumn_length(columns) == Len(columns)

\* column index of an event pushed as a new column: columns.length - 1
PushedColumn(columns) == Len(columns) - 1

RECURSIVE PlaceEvents(_, _, _, _, _)
PlaceEvents(group, j, columns, lays, vd) ==
    IF j > Len(group) THEN [columns |-> columns, layouts |-> lays]
    ELSE LET event == group[j]
             i == FirstFit(columns, event, 1)
         IN  IF ~HasTime(event.start)
             THEN PlaceEvents(group, j + 1, columns, lays, vd)
             ELSE IF i # 0
             THEN PlaceEvents(group, j + 1, [columns EXCEPT ![i] = event],
                              Append(lays, NewLayout(event, i - 1, vd)), vd)
             ELSE LET pushed == Append(columns, event)
                  IN  PlaceEvents(group, j + 1, pushed,
                                  Append(lays,
                                         NewLayout(event, PushedColumn(pushed), vd)),
                                  vd)

(* Total broadcast, lines 237-244 *)

RECURSIVE FindLayout(_, _, _)
FindLayout(lays, id, k) ==
    IF k > Len(lays) THEN 0
    ELSE IF lays[k].event.id = id THEN k
    ELSE FindLayout(lays, id, k + 1)

\* the cluster's size in place of its column count
GroupTotal_groupSize(group, columns) == Len(group)

GroupTotal(group, columns) == Len(columns)

RECURSIVE AssignTotals(_, _, _, _)
AssignTotals(group, j, lays, total) ==
    IF j > Len(group) THEN lays
    ELSE LET k == FindLayout(lays, group[j].id, 1)
         IN  IF k = 0 THEN AssignTotals(group, j + 1, lays, total)
             ELSE AssignTotals(group, j + 1,
                               [lays EXCEPT ![k].total = total], total)

RECURSIVE PackGroups(_, _, _, _)
PackGroups(gs, g, lays, vd) ==
    IF g > Len(gs) THEN lays
    ELSE LET p == PlaceEvents(gs[g], 1, <<>>, lays, vd)
         IN  PackGroups(gs, g + 1,
                        AssignTotals(gs[g], 1, p.layouts,
                                     GroupTotal(gs[g], p.columns)),
                        vd)

-----------------------------------------------------------------------------
(* Pixel projection, lines 247-285 *)

AdjustedStartTime(item, vd) ==
    IF item.continuesFromPrevDay THEN vd ELSE item.event.start

AdjustedEndTime(item, vd) ==
    IF item.continuesNextDay THEN SetHoursEndOfDay(vd)
    ELSE EffectiveEnd(item.event)

StartMinutes(item, vd) == MinutesOfDay(AdjustedStartTime(item, vd))

EndMinutes(item, vd) == MinutesOfDay(AdjustedEndTime(item, vd))

\* the offset of the first displayed hour forgotten
Top_noStartHour(item, sh, hh, vd) == Frac(StartMinutes(item, vd) * hh, 60)

Top(item, sh, hh, vd) == Frac((StartMinutes(item, vd) - sh * 60) * hh, 60)

\* an inverted displayed interval corrected to an empty one
Height_atLeastZero(item, hh, vd) ==
    IF EndMinutes(item, vd) < StartMinutes(item, vd) THEN Frac(0, 60)
    ELSE Frac((EndMinutes(item, vd) - StartMinutes(item, vd)) * hh, 60)

Height(item, hh, vd) ==
    Frac((EndMinutes(item, vd) - StartMinutes(item, vd)) * hh, 60)

WidthPercentage(item) ==
    IF item.total = 0 THEN Infinity ELSE Frac(100, item.total)

LeftPercentage(item) ==
    IF item.total = 0
    THEN (IF item.column = 0 THEN NaN ELSE Infinity)
    ELSE Frac(item.column * 100, item.total)

Placement(item, sh, hh, vd) ==
    [event |-> item.event,
     top |-> Top(item, sh, hh, vd),
     height |-> Height(item, hh, vd),
     left |-> LeftPercentage(item),
     width |-> WidthPercentage(item),
     isMultiDay |-> item.isMultiDay,
     continuesNextDay |-> item.continuesNextDay,
     continuesFromPrevDay |-> item.continuesFromPrevDay]

RECURSIVE Project(_, _, _, _, _)
Project(lays, k, sh, hh, vd) ==
    IF k > Len(lays) THEN <<>>
    ELSE IF ~HasTime(lays[k].event.start) THEN Project(lays, k + 1, sh, hh, vd)
    ELSE <<Placement(lays[k], sh, hh, vd)>> \o Project(lays, k + 1, sh, hh, vd)

-----------------------------------------------------------------------------
(* calculateEventPositions, lines 97-286 *)

\* the guard without its test for a missing list
ReturnsEarly_lengthOnly(evs) == evs.present /\ Len(evs.items) = 0

\* the guard of line 103: !events || events.length === 0
ReturnsEarly(evs) == ~evs.present \/ Len(evs.items) = 0

\* the caller's list after a call that sorts the list itself, without slice()
CallerList_sortedInPlace(evs, out) ==
    IF ReturnsEarly(evs) THEN evs ELSE [evs EXCEPT !.items = out.sortedEvents]

\* the caller's list after the call: events.slice().sort(...) sorts a copy,
\* and no statement assigns to events or to a field of an event
CallerList(evs, out) == evs

Outcome(srt, gs, lays, thrown, res) ==
    [sortedEvents |-> srt, groups |-> gs, layouts |-> lays,
     raised |-> thrown, result |-> res]

calculateEventPositions(eng, evs, sh, hh, vd) ==
    IF ReturnsEarly(evs) THEN Outcome(<<>>, <<>>, <<>>, FALSE, <<>>)
    ELSE IF ~evs.present
    THEN Outcome(<<>>, <<>>, <<>>, TRUE, <<>>)   \* events.slice() of no list
    ELSE LET srt == SortEvents(eng, evs.items)
             gs == BuildGroups(srt)
             lays == PackGroups(gs, 1, <<>>, vd)
             thrown == \E g \in 1..Len(gs) : \E k \in 1..Len(gs[g]) :
                           HasTime(gs[g][k].start) /\ FlagsThrow(gs[g][k])
         IN  IF thrown THEN Outcome(srt, gs, <<>>, TRUE, <<>>)
             ELSE Outcome(srt, gs, lays, FALSE, Project(lays, 1, sh, hh, vd))

-----------------------------------------------------------------------------
(* Inputs of the bounded model *)

EventList(f, n) ==
    [i \in 1..n |-> [id |-> i, start |-> f[i][1], end |-> f[i][2]]]

\* the choices of n events: a start and an end for each
Choices(starts, ends, n) == [1..n -> starts \X ends]

Given(items) == [present |-> TRUE, items |-> items]

Absent == [present |-> FALSE, items |-> <<>>]

\* one day, 09:00 to 10:30: overlapping, touching, empty and inverted intervals
ClusterStarts == {540, 570, 615, NoTime}
ClusterEnds == {540, 600, 630, NoTime}

\* three days: 10:00, 22:00 and 23:45 of day 0 and 03:40 of day 2, ends on
\* day 0 and on day 2
ProjStarts == {600, 1320, 1425, 3100, NoTime}
ProjEnds == {690, 3000, NoTime}
ProjStartHours == {0, 8}
ProjHourHeights == {60, 40}
ProjViewDates == {0, 1440, 2055}

TwiceStarts == {540, 1320, NoTime}
TwiceEnds == {600, 3000, NoTime}
TwiceViewDates == {0, 1440}
OtherLists == {<<>>, <<[id |-> 1, start |-> 540, end |-> 600],
                       [id |-> 2, start |-> 570, end |-> NoTime]>>}

-----------------------------------------------------------------------------
(* The state machine *)

NoCall ==
    [events |-> Absent, startHour |-> 0, hourHeight |-> 0, viewDate |-> 0,
     outcome |-> Outcome(<<>>, <<>>, <<>>, FALSE, <<>>)]

Init ==
    /\ engine \in Engines
    /\ now = 0
    /\ calls = 0
    /\ events = Absent
    /\ startHour = 0
    /\ hourHeight = 0
    /\ viewDate = 0
    /\ sortedEvents = <<>>
    /\ groups = <<>>
    /\ layouts = <<>>
    /\ raised = FALSE
    /\ result = <<>>
    /\ first = NoCall
    /\ props = Absent
    /\ currentView = "month"
    /\ currentDate = now
    /\ passed = <<>>
    /\ handler = [name |-> "none", plan |-> <<>>, pc |-> "idle"]
    /\ tasks = <<>>
    /\ log = <<>>

\* the calls of calculateEventPositions on the lists of one render pass, the
\* last of them on evs for the day vd
Calls(lists, evs, sh, hh, vd) ==
    LET out == calculateEventPositions(engine, evs, sh, hh, vd)
    IN  /\ calls' = calls + Len(lists)
        /\ passed' = lists
        /\ events' = CallerList(evs, out)
        /\ startHour' = sh
        /\ hourHeight' = hh
        /\ viewDate' = vd
        /\ sortedEvents' = out.sortedEvents
        /\ groups' = out.groups
        /\ layouts' = out.layouts
        /\ raised' = out.raised
        /\ result' = out.result
        /\ first' = IF calls = 0
                    THEN [events |-> evs, startHour |-> sh, hourHeight |-> hh,
                          viewDate |-> vd, outcome |-> out]
                    ELSE first
        /\ UNCHANGED <<engine, now, asyncVars>>

\* one call of calculateEventPositions(evs, sh, hh, vd)
Apply(evs, sh, hh, vd) ==
    /\ Calls(<<evs>>, evs, sh, hh, vd)
    /\ UNCHANGED <<props, currentView, currentDate>>

\* the week view's call for one day column, lines 1102-1107
CallCluster ==
    /\ calls = 0
    /\ \E n \in 0..MaxEvents :
         \E f \in Choices(ClusterStarts, ClusterEnds, n) :
            Apply(Given(EventList(f, n)), 0, 60, 0)

CallProj ==
    /\ calls = 0
    /\ \E n \in 0..MaxProjEvents :
         \E f \in Choices(ProjStarts, ProjEnds, n), sh \in ProjStartHours,
            hh \in ProjHourHeights, vd \in ProjViewDates :
              Apply(Given(EventList(f, n)), sh, hh, vd)

CallAbsent ==
    /\ calls = 0
    /\ \E sh \in ProjStartHours, hh \in ProjHourHeights, vd \in ProjViewDates :
            Apply(Absent, sh, hh, vd)

CallFirst ==
    /\ calls = 0
    /\ \E n \in 0..MaxTwiceEvents :
         \E f \in Choices(TwiceStarts, TwiceEnds, n), vd \in TwiceViewDates :
            Apply(Given(EventList(f, n)), 0, 60, vd)

\* a render pass with the arguments of the first call again
CallAgain ==
    /\ calls >= 1
    /\ calls < MaxCalls
    /\ Apply(first.events, first.startHour, first.hourHeight, first.viewDate)

\* a render pass with other arguments in between
CallOther ==
    /\ calls >= 1
    /\ calls < MaxCalls
    /\ \E items \in OtherLists, vd \in TwiceViewDates :
            Apply(Given(items), 0, 60, vd)

\* the ambient clock advances
Tick ==
    /\ now < MaxNow * TickMinutes
    /\ now' = now + TickMinutes
    /\ UNCHANGED <<engine, calls, events, startHour, hourHeight, viewDate,
                   sortedEvents, groups, layouts, raised, result, first,
                   props, currentView, currentDate, passed, asyncVars>>

Next == CallCluster

Spec == Init /\ [][Next]_vars

NextProj == CallProj \/ CallAbsent

SpecProj == Init /\ [][NextProj]_vars

NextTwice == CallFirst \/ CallAgain \/ CallOther \/ Tick

SpecTwice == Init /\ [][NextTwice]_vars

-----------------------------------------------------------------------------
(* The day view and the week view, lines 916-1107 and 1260-1327 *)

\* startOfWeek(currentDate, { weekStartsOn: 0 }); day 0 is a Sunday
StartOfWeek(d) == (DateString(d) \div WeekLength) * WeekLength * MinutesPerDay

WeekDay(d, i) == StartOfWeek(d) + i * MinutesPerDay

StartOfDay(d) == DateString(d) * MinutesPerDay

\* the dayEvents filter of the week view without its test of the type
WeekShows_anyType(event, dayItem) ==
    IF ~HasTime(event.start) THEN FALSE
    ELSE IF HasTime(event.end) /\ DateString(event.start) # DateString(event.end)
    THEN \/ DateString(event.start) = DateString(dayItem)
         \/ DateString(event.end) = DateString(dayItem)
         \/ StartOfDay(dayItem) >= event.start /\ StartOfDay(dayItem) <= event.end
    ELSE DateString(event.start) = DateString(dayItem)

\* the dayEvents filter of the week view, lines 1076-1100
WeekShows(event, dayItem) ==
    IF ~HasTime(event.start) THEN FALSE
    ELSE IF event.type = "holiday" THEN FALSE
    ELSE IF HasTime(event.end) /\ DateString(event.start) # DateString(event.end)
    THEN \/ DateString(event.start) = DateString(dayItem)
         \/ DateString(event.end) = DateString(dayItem)
         \/ StartOfDay(dayItem) >= event.start /\ StartOfDay(dayItem) <= event.end
    ELSE DateString(event.start) = DateString(dayItem)

\* the timedEvents filter of the day view, lines 1296-1313
DayShows(event, day) ==
    IF ~HasTime(event.start) THEN FALSE
    ELSE IF event.type = "holiday" THEN FALSE
    ELSE IF HasTime(event.end) /\ DateString(event.start) # DateString(event.end)
    THEN FALSE
    ELSE DateString(event.start) = DateString(day)

\* dayEvents.filter(event => event && event.start), line 1103
WeekDayEvents(items, dayItem) ==
    LET Shown(e) == WeekShows(e, dayItem) /\ HasTime(e.start)
    IN  Given(SelectSeq(items, Shown))

\* timedEvents.filter(event => event && event.start), line 1323
DayTimedEvents(items, day) ==
    LET Shown(e) == DayShows(e, day) /\ HasTime(e.start)
    IN  Given(SelectSeq(items, Shown))

WeekLists(items, d) ==
    [i \in 1..WeekLength |-> WeekDayEvents(items, WeekDay(d, i - 1))]

\* the render pass of the component for its state (view, p, d): the week view
\* calls the engine once per day column, the day view once, the others never
Render(view, p, d) ==
    IF view = "week" /\ p.present
    THEN Calls(WeekLists(p.items, d),
               WeekDayEvents(p.items, WeekDay(d, WeekLength - 1)),
               0, 60, WeekDay(d, WeekLength - 1))
    ELSE IF view = "day" /\ p.present
    THEN Calls(<<DayTimedEvents(p.items, d)>>, DayTimedEvents(p.items, d),
               0, 60, d)
    ELSE /\ passed' = <<>>
         /\ UNCHANGED <<engine, now, calls, events, startHour, hourHeight,
                        viewDate, sortedEvents, groups, layouts, raised,
                        result, first, asyncVars>>

TypedList(f, n) ==
    [i \in 1..n |->
        [id |-> i, start |-> f[i][1], end |-> f[i][2], type |-> f[i][3]]]

ViewStarts == {600, NoTime}
ViewEnds == {690, 3000, NoTime}
ViewTypes == {"task", "holiday"}
ViewDates == {0, 2055}
Views == {"day", "week", "month", "year"}

\* the parent passes the fetched events
ReceiveEvents ==
    /\ ~props.present
    /\ \E n \in 0..MaxViewEvents :
         \E f \in [1..n -> ViewStarts \X ViewEnds \X ViewTypes] :
            /\ props' = Given(TypedList(f, n))
            /\ UNCHANGED <<currentView, currentDate>>
            /\ Render(currentView, props', currentDate)

\* setCurrentView, lines 3166-3196
SetCurrentView ==
    \E v \in Views \ {currentView} :
        /\ calls < MaxRenders
        /\ currentView' = v
        /\ UNCHANGED <<props, currentDate>>
        /\ Render(v, props, currentDate)

\* setCurrentDate, lines 1599-1627
SetCurrentDate ==
    \E d \in ViewDates \ {currentDate} :
        /\ calls < MaxRenders
        /\ currentDate' = d
        /\ UNCHANGED <<props, currentView>>
        /\ Render(currentView, props, d)

NextView == ReceiveEvents \/ SetCurrentView \/ SetCurrentDate

SpecView == Init /\ [][NextView]_vars

-----------------------------------------------------------------------------
(* The event thunks of eventActions.ts and the handlers that await them *)

Errors == {"E1", "E2"}
NoError == "none"
UserNotFound == "User not found"

RequestThunks ==
    {"getCalendarEvents", "getEvent", "createEvent", "updateEvent", "deleteEvent"}
ParticipantThunks ==
    {"addEventParticipant", "updateEventParticipant", "removeEventParticipant"}
Thunks == RequestThunks \cup ParticipantThunks \cup {"confirmEventParticipation"}

\* the prefix of the action types a thunk dispatches
ActionPrefix(thunk) ==
    CASE thunk = "getCalendarEvents" -> "FETCH_EVENTS"
      [] thunk = "getEvent" -> "FETCH_EVENT"
      [] thunk = "createEvent" -> "CREATE_EVENT"
      [] thunk = "updateEvent" -> "UPDATE_EVENT"
      [] thunk = "deleteEvent" -> "DELETE_EVENT"

\* the eventService function a thunk calls first
FirstCall(thunk) ==
    CASE thunk = "addEventParticipant" -> "findUserByEmail"
      [] thunk = "updateEventParticipant" -> "updateParticipant"
      [] thunk = "removeEventParticipant" -> "removeParticipant"
      [] OTHER -> thunk

Entry(kind, task, name, error) ==
    [kind |-> kind, task |-> task, name |-> name, error |-> error]

\* dispatch(thunk(...)): the thunk runs up to its first await
Launch(ts, lg, thunk, detached) ==
    LET id == Len(ts) + 1
        request == IF thunk \in RequestThunks
                   THEN <<Entry("dispatch", id, ActionPrefix(thunk) \o "_REQUEST",
                                NoError)>>
                   ELSE <<>>
    IN  [tasks |-> Append(ts, [thunk |-> thunk, call |-> FirstCall(thunk),
                               status |-> "pending", error |-> NoError,
                               detached |-> detached]),
         log |-> lg \o <<Entry("thunk", id, thunk, NoError)>> \o request
                    \o <<Entry("call", id, FirstCall(thunk), NoError)>>]

\* a catch block that resolves the thunk instead of throwing
Rethrow_swallowed(error) == [status |-> "resolved", error |-> NoError]

\* catch (error) { ...; throw error; }
Rethrow(error) == [status |-> "rejected", error |-> error]

Settled(ts, lg, t, how) ==
    [tasks |-> [ts EXCEPT ![t].status = how.status, ![t].error = how.error],
     log |-> lg \o <<Entry(how.status, t, ts[t].thunk, how.error)>>]

Resolved == [status |-> "resolved", error |-> NoError]

\* a participant thunk that resolves without starting the refetch
OnSuccess_noRefetch(ts, lg, t) ==
    LET thunk == ts[t].thunk
    IN  IF thunk \in RequestThunks
        THEN Settled(ts, lg \o <<Entry("dispatch", t,
                                       ActionPrefix(thunk) \o "_SUCCESS", NoError)>>,
                     t, Resolved)
        ELSE IF ts[t].call = "findUserByEmail"
        THEN [tasks |-> [ts EXCEPT ![t].call = "addParticipant"],
              log |-> lg \o <<Entry("call", t, "addParticipant", NoError)>>]
        ELSE Settled(ts, lg, t, Resolved)

\* the continuation of task t when its eventService call has succeeded
OnSuccess(ts, lg, t) ==
    LET thunk == ts[t].thunk
    IN  IF thunk \in RequestThunks
        THEN Settled(ts, lg \o <<Entry("dispatch", t,
                                       ActionPrefix(thunk) \o "_SUCCESS", NoError)>>,
                     t, Resolved)
        ELSE IF ts[t].call = "findUserByEmail"
        THEN [tasks |-> [ts EXCEPT ![t].call = "addParticipant"],
              log |-> lg \o <<Entry("call", t, "addParticipant", NoError)>>]
        ELSE IF thunk \in ParticipantThunks
        THEN LET refetch == Launch(ts, lg, "getEvent", TRUE)
             IN  Settled(refetch.tasks, refetch.log, t, Resolved)
        ELSE Settled(ts, lg, t, Resolved)

\* a catch block that rethrows without dispatching the failure
OnFailure_silent(ts, lg, t, e) ==
    Settled(ts, lg \o <<Entry("fail", t, ts[t].call, e)>>, t, Rethrow(e))

\* the continuation of task t when its eventService call has failed with e
OnFailure(ts, lg, t, e) ==
    LET thunk == ts[t].thunk
        failed == lg \o <<Entry("fail", t, ts[t].call, e)>>
    IN  IF thunk \in RequestThunks
        THEN Settled(ts, failed \o <<Entry("dispatch", t,
                                          ActionPrefix(thunk) \o "_FAILURE", e)>>,
                     t, Rethrow(e))
        ELSE Settled(ts, failed, t, Rethrow(e))

\* the continuation of addEventParticipant when the lookup finds no user
OnNobody(ts, lg, t) == Settled(ts, lg, t, Rethrow(UserNotFound))

Repeat(x, n) == [i \in 1..n |-> x]

Handlers ==
    {"handleEventFormSubmit", "handleDeleteEvent", "handleAddParticipant",
     "handleUpdateParticipantStatus", "handleRemoveParticipant"}

\* what the handler reads from the component when it starts
Contexts ==
    {ctx \in [isEditing : BOOLEAN, participations : BOOLEAN,
              colorChanged : BOOLEAN, arrangement : BOOLEAN, authUser : BOOLEAN,
              removed : 0..MaxParticipants, added : 0..MaxParticipants] :
        ctx.removed + ctx.added <= MaxParticipants}

Refetch(c) == IF c THEN <<"getCalendarEvents">> ELSE <<>>

\* the thunks a handler awaits one after the other while none of them rejects
Plan(name, ctx) ==
    CASE name = "handleEventFormSubmit" ->
           IF ctx.isEditing
           THEN <<"updateEvent">>
                \o (IF ctx.participations /\ ctx.colorChanged
                    THEN <<"updateEventParticipant">> ELSE <<>>)
                \o (IF ctx.arrangement /\ ctx.participations
                    THEN Repeat("removeEventParticipant", ctx.removed)
                         \o Repeat("addEventParticipant", ctx.added)
                    ELSE <<>>)
                \o Refetch(ctx.participations /\ ctx.authUser)
           ELSE <<"createEvent">> \o Refetch(ctx.authUser)
      [] name = "handleDeleteEvent" -> <<"deleteEvent">>
      [] name = "handleAddParticipant" ->
           IF ctx.participations
           THEN <<"addEventParticipant", "getEvent">> \o Refetch(ctx.authUser)
           ELSE <<>>
      [] name = "handleUpdateParticipantStatus" ->
           <<"updateEventParticipant", "getEvent">>
           \o Refetch(ctx.participations /\ ctx.authUser)
      [] name = "handleRemoveParticipant" ->
           <<"removeEventParticipant", "getEvent">>
           \o Refetch(ctx.participations /\ ctx.authUser)

\* the handler runs on to its next await, or to its end
Proceed(name, plan, ts, lg) ==
    IF plan = <<>>
    THEN /\ handler' = [name |-> name, plan |-> <<>>, pc |-> "finished"]
         /\ tasks' = ts
         /\ log' = lg
    ELSE LET next == Launch(ts, lg, Head(plan), FALSE)
         IN  /\ handler' = [name |-> name, plan |-> plan, pc |-> "awaiting"]
             /\ tasks' = next.tasks
             /\ log' = next.log

\* the state after the continuation of task t: a handler that awaited the
\* task goes on in the same turn of the event loop
Resume(t, after) ==
    IF tasks[t].detached \/ after.tasks[t].status = "pending"
    THEN /\ tasks' = after.tasks
         /\ log' = after.log
         /\ UNCHANGED handler
    ELSE IF after.tasks[t].status = "rejected"
    THEN /\ handler' = [handler EXCEPT !.pc = "finished"]
         /\ tasks' = after.tasks
         /\ log' = after.log
    ELSE Proceed(handler.name, Tail(handler.plan), after.tasks, after.log)

\* a backend that answers its calls in the order in which they were made
Pending_inOrder(t) ==
    /\ t \in 1..Len(tasks)
    /\ tasks[t].status = "pending"
    /\ \A u \in 1..(t - 1) : tasks[u].status # "pending"

Pending(t) == t \in 1..Len(tasks) /\ tasks[t].status = "pending"

Quiescent ==
    /\ handler.pc # "awaiting"
    /\ \A t \in 1..Len(tasks) : tasks[t].status # "pending"

\* the user triggers a handler of the component
StartHandler ==
    /\ Quiescent
    /\ \E name \in Handlers : \E plan \in {Plan(name, ctx) : ctx \in Contexts} :
          Proceed(name, plan, <<>>, <<>>)
    /\ UNCHANGED layoutVars

\* a thunk is dispatched on its own
DispatchThunk ==
    /\ Quiescent
    /\ \E thunk \in Thunks : Proceed("none", <<thunk>>, <<>>, <<>>)
    /\ UNCHANGED layoutVars

\* the eventService call of task t is fulfilled
ReplySucceeds(t) ==
    /\ Pending(t)
    /\ Resume(t, OnSuccess(tasks, log, t))
    /\ UNCHANGED layoutVars

BackendSucceeds == \E t \in 1..Len(tasks) : ReplySucceeds(t)

BackendFails ==
    /\ \E t \in 1..Len(tasks) : \E e \in Errors :
          /\ Pending(t)
          /\ Resume(t, OnFailure(tasks, log, t, e))
    /\ UNCHANGED layoutVars

LookupFindsNobody ==
    /\ \E t \in 1..Len(tasks) :
          /\ Pending(t)
          /\ tasks[t].call = "findUserByEmail"
          /\ Resume(t, OnNobody(tasks, log, t))
    /\ UNCHANGED layoutVars

NextAsync ==
    \/ StartHandler
    \/ DispatchThunk
    \/ BackendSucceeds
    \/ BackendFails
    \/ LookupFindsNobody

SpecAsync == Init /\ [][NextAsync]_vars

-----------------------------------------------------------------------------
(* Properties of calculateEventPositions *)

Called == calls >= 1 /\ events.present

Items == events.items

Timed == {i \in 1..Len(Items) : HasTime(Items[i].start)}

\* every event has a start, and an end that is missing or not before it
WellFormed ==
    \A i \in 1..Len(Items) :
        /\ HasTime(Items[i].start)
        /\ HasTime(Items[i].end) => Items[i].end >= Items[i].start

\* the effective interval of an event: a missing end is start + 30 minutes
IntervalEnd(ev) == IF ev.end = NoTime THEN ev.start + 30 ELSE ev.end

Intersect(a, b) ==
    a.start < IntervalEnd(b) /\ IntervalEnd(a) > b.start

LayoutsOf(id) == {k \in 1..Len(layouts) : layouts[k].event.id = id}

PlacementsOf(id) == {k \in 1..Len(result) : result[k].event.id = id}

ClustersOf(id) ==
    {g \in 1..Len(groups) : \E k \in 1..Len(groups[g]) : groups[g][k].id = id}

Zero == [n |-> 0, d |-> 1]

Hundred == [n |-> 100, d |-> 1]

\* C1: in a call on well-formed events (distinct ids, end >= start), any two
\* placed events whose effective intervals overlap are in the same cluster,
\* in different columns, and never share both left and width
C1_OverlappingSideBySide ==
    (Called /\ WellFormed) =>
        \A a, b \in 1..Len(layouts) :
            (a # b /\ Intersect(layouts[a].event, layouts[b].event)) =>
                /\ ClustersOf(layouts[a].event.id) = ClustersOf(layouts[b].event.id)
                /\ layouts[a].column # layouts[b].column
                /\ \A p \in PlacementsOf(layouts[a].event.id),
                      q \in PlacementsOf(layouts[b].event.id) :
                        ~(result[p].left = result[q].left
                            /\ result[p].width = result[q].width)

PairwiseDisjoint ==
    \A i, j \in Timed : i # j => ~Intersect(Items[i], Items[j])

\* C2: when no two events of the call overlap, every event is placed once,
\* in column 0 with totalColumns 1, left 0 and width 100
C2_DisjointAllColumnZero ==
    (Called /\ PairwiseDisjoint) =>
        \A i \in Timed :
            /\ Cardinality(LayoutsOf(Items[i].id)) = 1
            /\ Cardinality(PlacementsOf(Items[i].id)) = 1
            /\ \A k \in LayoutsOf(Items[i].id) :
                   layouts[k].column = 0 /\ layouts[k].total = 1
            /\ \A k \in PlacementsOf(Items[i].id) :
                   result[k].left = Zero /\ result[k].width = Hundred

C2_Witness ==
    /\ Called
    /\ PairwiseDisjoint
    /\ Cardinality(Timed) >= 3
    /\ Len(result) >= 3

Identical ==
    \A i, j \in 1..Len(Items) :
        Items[i].start = Items[j].start /\ Items[i].end = Items[j].end

\* C3: N events with one identical interval land in one cluster, in the
\* columns 0..N-1, each with totalColumns N
C3_IdenticalOneCluster ==
    (Called /\ WellFormed /\ Identical /\ Len(Items) >= 1) =>
        /\ Len(groups) = 1
        /\ {layouts[k].column : k \in 1..Len(layouts)} = 0..(Len(Items) - 1)
        /\ Len(layouts) = Len(Items)
        /\ \A k \in 1..Len(layouts) : layouts[k].total = Len(Items)

\* the events linked to those of S by one more overlap
RECURSIVE Chained(_)
Chained(S) ==
    LET more == S \cup {j \in Timed : \E i \in S : Intersect(Items[i], Items[j])}
    IN  IF more = S THEN S ELSE Chained(more)

\* C4: two events are in the same cluster exactly when a chain of pairwise
\* overlapping events links them
C4_ClustersAreChains ==
    (Called /\ WellFormed) =>
        \A i, j \in Timed :
            (ClustersOf(Items[i].id) = ClustersOf(Items[j].id))
                <=> (j \in Chained({i}))

\* the columns opened while packing one cluster
ColumnsOpened(g) ==
    Len(PlaceEvents(groups[g], 1, <<>>, <<>>, viewDate).columns)

\* C5: every event of a cluster reports the number of columns opened while
\* packing that cluster
C5_ClusterWideTotal ==
    Called =>
        \A g \in 1..Len(groups) : \A k \in 1..Len(groups[g]) :
            \A l \in LayoutsOf(groups[g][k].id) :
                layouts[l].total = ColumnsOpened(g)

\* a cluster of three events packed into two columns
C5_Witness ==
    /\ Called
    /\ \E g \in 1..Len(groups) :
           /\ Len(groups[g]) = 3
           /\ ColumnsOpened(g) = 2
           /\ \A k \in 1..Len(groups[g]) :
                  \A l \in LayoutsOf(groups[g][k].id) : layouts[l].total = 2

\* a placement of an event that starts before and ends after the viewed day
SpansViewDay(ev) ==
    /\ HasTime(ev.start)
    /\ HasTime(ev.end)
    /\ DateString(ev.start) < DateString(viewDate)
    /\ DateString(ev.end) > DateString(viewDate)

\* C6: with startHour = 0, an event that spans the viewed day is placed with
\* both continuation flags, top 0 and the height of 24 hours
C6_SpanningFillsDay ==
    (Called /\ startHour = 0) =>
        \A k \in 1..Len(result) :
            SpansViewDay(result[k].event) =>
                /\ result[k].continuesFromPrevDay
                /\ result[k].continuesNextDay
                /\ result[k].top = Zero
                /\ result[k].height = Frac(24 * hourHeight, 1)

SingleDay(ev) ==
    /\ HasTime(ev.start)
    /\ HasTime(ev.end)
    /\ DateString(ev.start) = DateString(ev.end)

\* C7: a single-day event with an explicit end is placed at
\* top = (startMinutesOfDay - startHour*60) / 60 * hourHeight with
\* height = (endMinutesOfDay - startMinutesOfDay) / 60 * hourHeight
C7_PixelProjection ==
    Called =>
        \A k \in 1..Len(result) :
            LET ev == result[k].event
            IN  SingleDay(ev) =>
                    /\ result[k].top =
                           Frac(((ev.start % 1440) - startHour * 60) * hourHeight, 60)
                    /\ result[k].height =
                           Frac(((ev.end % 1440) - (ev.start % 1440)) * hourHeight, 60)

\* 10:00-11:30 at 60 px per hour from hour 0: top 600, height 90; the same
\* call from hour 8 is reached as well
C7_Witness ==
    /\ Called
    /\ hourHeight = 60
    /\ \E k \in 1..Len(result) :
           /\ result[k].event.start = 600
           /\ result[k].event.end = 690
           /\ result[k].height = [n |-> 90, d |-> 1]
           /\ \/ startHour = 0 /\ result[k].top = [n |-> 600, d |-> 1]
              \/ startHour = 8 /\ result[k].top = [n |-> 120, d |-> 1]

Without(items, i) == SubSeq(items, 1, i - 1) \o SubSeq(items, i + 1, Len(items))

AsSet(s) == {s[k] : k \in 1..Len(s)}

\* C8: an event without start is not placed, and the placements of the other
\* events are those of the call on the list without it
C8_MissingStartIgnored ==
    Called =>
        \A i \in 1..Len(Items) :
            ~HasTime(Items[i].start) =>
                LET alone == calculateEventPositions(
                                 engine, Given(Without(Items, i)),
                                 startHour, hourHeight, viewDate)
                IN  /\ LayoutsOf(Items[i].id) = {}
                    /\ PlacementsOf(Items[i].id) = {}
                    /\ AsSet(layouts) = AsSet(alone.layouts)
                    /\ AsSet(result) = AsSet(alone.result)

SameAsFirst ==
    /\ events = first.events
    /\ startHour = first.startHour
    /\ hourHeight = first.hourHeight
    /\ viewDate = first.viewDate

C10_EmptyInEmptyOut ==
    (calls >= 1 /\ (~events.present \/ Len(events.items) = 0)) =>
        result = <<>> /\ ~raised

C10_Witness ==
    /\ calls >= 1
    /\ ~events.present
    /\ startHour = 8
    /\ hourHeight = 40
    /\ viewDate = 2055
    /\ result = <<>>

\* every event with a start begins and ends (start + 30 minutes without end)
\* on one calendar day
AllSingleDay ==
    \A i \in Timed :
        DateString(Items[i].start) = DateString(IntervalEnd(Items[i]))

\* C11: for single-day events the output is the same for every viewDate and
\* both continuation flags are false
C11_ViewDayIrrelevant ==
    (Called /\ AllSingleDay) =>
        /\ \A k \in 1..Len(result) :
               ~result[k].continuesFromPrevDay /\ ~result[k].continuesNextDay
        /\ \A vd \in ProjViewDates :
               calculateEventPositions(engine, events, startHour,
                                       hourHeight, vd).result = result

\* two single-day events of day 0 laid out for a moment of day 1
C11_Witness ==
    /\ Called
    /\ AllSingleDay
    /\ Len(result) = 2
    /\ viewDate = 2055
    /\ \E k \in 1..Len(result) : HasTime(result[k].event.end)

\* C12: an event without end is laid out as the interval [start, start + 30):
\* its height is never negative, it is hourHeight / 2 when that interval lies
\* within one day, and it shares a cluster with another event exactly when
\* that interval overlaps the other event
C12_NoEndIsHalfHour ==
    Called =>
        \A k \in 1..Len(result) :
            LET ev == result[k].event
            IN  ev.end = NoTime =>
                    /\ result[k].height.n >= 0
                    /\ DateString(ev.start) = DateString(ev.start + 30) =>
                           result[k].height = Frac(hourHeight, 2)
                    /\ (WellFormed /\ Len(Items) = 2) =>
                           \A q \in 1..Len(result) :
                               LET other == result[q].event
                               IN  (q # k /\ IntervalEnd(other) > other.start) =>
                                       ((ClustersOf(ev.id) = ClustersOf(other.id))
                                            <=> Intersect(ev, other))

C14_OnePlacementEach ==
    Called =>
        /\ Len(result) = Cardinality(Timed)
        /\ \A i \in 1..Len(Items) :
               Cardinality(PlacementsOf(Items[i].id)) =
                   (IF HasTime(Items[i].start) THEN 1 ELSE 0)

C14_Witness ==
    /\ Called
    /\ Len(Items) = 3
    /\ Cardinality(Timed) = 2
    /\ Len(groups) = 1
    /\ Len(result) = 2

\* A ends when B starts, both of positive duration, and no third event
\* overlaps either
TouchingAlone(i, j) ==
    /\ i # j
    /\ IntervalEnd(Items[i]) > Items[i].start
    /\ IntervalEnd(Items[j]) > Items[j].start
    /\ IntervalEnd(Items[i]) = Items[j].start
    /\ \A k \in Timed \ {i, j} :
           ~Intersect(Items[k], Items[i]) /\ ~Intersect(Items[k], Items[j])

\* C15: touching events are not grouped together and both get column 0 of 1
C15_TouchingIsAdjacent ==
    Called =>
        \A i, j \in Timed :
            TouchingAlone(i, j) =>
                /\ ClustersOf(Items[i].id) # ClustersOf(Items[j].id)
                /\ \A l \in LayoutsOf(Items[i].id) \cup LayoutsOf(Items[j].id) :
                       layouts[l].column = 0 /\ layouts[l].total = 1

C15_Witness ==
    /\ Called
    /\ Len(Items) = 3
    /\ \E i, j \in Timed : TouchingAlone(i, j) /\ Items[j].end = NoTime
    /\ Len(groups) = 3

\* the layouts of the events of cluster g placed before its j-th event
Earlier(g, j) ==
    {l \in 1..Len(layouts) :
        \E k \in 1..(j - 1) : layouts[l].event.id = groups[g][k].id}

\* the layout of the event placed last in column c among those of L
LastIn(L, c) ==
    CHOOSE l \in L :
        /\ layouts[l].column = c
        /\ \A m \in L : layouts[m].column = c => m <= l

Min(S) == CHOOSE x \in S : \A y \in S : x <= y

\* C19: each event of a cluster takes the lowest open column whose last
\* event ends no later than the event starts, and opens the next column
\* only when there is none
C19_LowestFreeColumn ==
    Called =>
        \A g \in 1..Len(groups) : \A j \in 1..Len(groups[g]) :
            LET event == groups[g][j]
                before == Earlier(g, j)
                open == {layouts[l].column : l \in before}
                free == {c \in open :
                            IntervalEnd(layouts[LastIn(before, c)].event)
                                <= event.start}
            IN  \A l \in LayoutsOf(event.id) :
                    layouts[l].column =
                        (IF free # {} THEN Min(free) ELSE Cardinality(open))

\* the third event of a cluster reuses column 1 while column 0 is taken
C19_Witness ==
    /\ Called
    /\ \E g \in 1..Len(groups) :
           /\ Len(groups[g]) = 3
           /\ \A l \in LayoutsOf(groups[g][3].id) : layouts[l].column = 1
           /\ \A l \in LayoutsOf(groups[g][2].id) : layouts[l].column = 1
           /\ \A l \in LayoutsOf(groups[g][1].id) : layouts[l].column = 0

\* C20: isMultiDay is true exactly when the effective start and the effective
\* end (start + 30 minutes without end) lie on different calendar dates
C20_MultiDayByEffectiveEnd ==
    Called =>
        \A k \in 1..Len(result) :
            LET ev == result[k].event
            IN  result[k].isMultiDay <=>
                    (DateString(ev.start) # DateString(IntervalEnd(ev)))

\* C16: no list passed to calculateEventPositions by the day view or the week
\* view holds an event of type holiday
C16_NoHolidayInGrid ==
    \A k \in 1..Len(passed) : \A i \in 1..Len(passed[k].items) :
        passed[k].items[i].type # "holiday"

\* a week with a holiday and a task on its first day, the task in the grid
C16_Witness ==
    /\ currentView = "week"
    /\ props.present
    /\ Len(passed) = 7
    /\ \E i \in 1..Len(props.items) :
           /\ props.items[i].type = "holiday"
           /\ props.items[i].start = 600
    /\ Len(passed[1].items) = 1

Mutations ==
    {"createEvent", "updateEvent", "deleteEvent"} \cup ParticipantThunks

\* C17: when the eventService call of a thunk fails, the thunk rejects with
\* that error and does not resolve
C17_FailurePropagates ==
    \A i \in 1..Len(log) :
        log[i].kind = "fail" =>
            /\ tasks[log[i].task].status = "rejected"
            /\ tasks[log[i].task].error = log[i].error
            /\ \A j \in 1..Len(log) :
                   log[j].task = log[i].task => log[j].kind # "resolved"

\* addEventParticipant has found the user and its addParticipant call failed
C17_Witness ==
    \E i \in 1..Len(log) :
        /\ log[i].kind = "fail"
        /\ log[i].name = "addParticipant"
        /\ log[i].error = "E2"
        /\ tasks[log[i].task].status = "rejected"

\* C18: when a handler has finished, every mutation thunk that resolved in it
\* is followed by a dispatch of getCalendarEvents
C18_RefetchAfterMutation ==
    (handler.name # "none" /\ handler.pc = "finished") =>
        \A i \in 1..Len(log) :
            (log[i].kind = "resolved" /\ log[i].name \in Mutations) =>
                \E j \in (i + 1)..Len(log) :
                    log[j].kind = "thunk" /\ log[j].name = "getCalendarEvents"

\* the calendar dates of the effective start and the effective end differ
EffectiveMultiDay(ev) == DateString(ev.start) # DateString(IntervalEnd(ev))

\* C21: a placement continues from the previous day exactly when its event is
\* multi-day and its effective start is not on the viewed day, and continues
\* to the next day exactly when its event is multi-day and its effective end
\* is not on the viewed day
C21_FlagsByEffectiveDates ==
    Called =>
        \A k \in 1..Len(result) :
            LET ev == result[k].event
            IN  /\ result[k].continuesFromPrevDay <=>
                       (EffectiveMultiDay(ev)
                        /\ DateString(ev.start) # DateString(viewDate))
                /\ result[k].continuesNextDay <=>
                       (EffectiveMultiDay(ev)
                        /\ DateString(IntervalEnd(ev)) # DateString(viewDate))

\* the minute of the day at which the displayed part of a placement starts
\* when the clamp is to 00:00 of the viewed day
DisplayedStartMinute(p) ==
    IF p.continuesFromPrevDay THEN 0 ELSE MinutesOfDay(p.event.start)

\* C22: a placement that continues from the previous day has
\* top = -startHour * hourHeight whatever the time of day of viewDate, and a
\* placement that continues to the next day ends at 23:59 of the viewed day
C22_ClampToDayBounds ==
    Called =>
        \A k \in 1..Len(result) :
            /\ result[k].continuesFromPrevDay =>
                   result[k].top = Frac((0 - startHour * 60) * hourHeight, 60)
            /\ result[k].continuesNextDay =>
                   result[k].height =
                       Frac((EndOfDayMinute - DisplayedStartMinute(result[k]))
                            * hourHeight, 60)

\* C23: the returned list is in ascending order of start, and of two events
\* of one cluster with equal start the one earlier in the input list has the
\* lower column
C23_SortedStableOrder ==
    Called =>
        /\ \A k \in 1..Len(result) : \A l \in (k + 1)..Len(result) :
               result[k].event.start <= result[l].event.start
        /\ \A i \in Timed : \A j \in Timed :
               (/\ i < j
                /\ Items[i].start = Items[j].start
                /\ ClustersOf(Items[i].id) \cap ClustersOf(Items[j].id) # {}) =>
                   \A k \in LayoutsOf(Items[i].id) :
                       \A l \in LayoutsOf(Items[j].id) :
                           layouts[k].column < layouts[l].column

Inverted(ev) == HasTime(ev.start) /\ HasTime(ev.end) /\ ev.end < ev.start

Negative(q) == q.d > 0 /\ q.n < 0

PositiveDurations ==
    \A i \in 1..Len(Items) :
        HasTime(Items[i].start) /\ IntervalEnd(Items[i]) > Items[i].start

\* the number of events of cluster g whose effective interval holds instant t
DepthAt(g, t) ==
    Cardinality({k \in 1..Len(groups[g]) :
                    groups[g][k].start <= t /\ t < IntervalEnd(groups[g][k])})

\* the largest number of events of cluster g that hold a common instant: it
\* is reached at the start of one of them
MaxDepth(g) ==
    CHOOSE m \in 1..Len(groups[g]) :
        /\ \E k \in 1..Len(groups[g]) : DepthAt(g, groups[g][k].start) = m
        /\ \A k \in 1..Len(groups[g]) : DepthAt(g, groups[g][k].start) <= m

\* C26: for events of positive duration the total of every layout is the
\* largest number of events of its cluster that hold a common instant, and
\* no column index reaches that number
C26_TotalIsMaxDepth ==
    (Called /\ PositiveDurations) =>
        \A g \in 1..Len(groups) : \A k \in 1..Len(groups[g]) :
            \A l \in LayoutsOf(groups[g][k].id) :
                /\ layouts[l].total = MaxDepth(g)
                /\ layouts[l].column < MaxDepth(g)

\* 09:00-09:30 (no end), 09:00-10:00 and 09:30-10:00 form one cluster of
\* three events of which at most two hold a common instant: the third reuses
\* column 0
C26_Witness ==
    /\ Called
    /\ PositiveDurations
    /\ \E g \in 1..Len(groups) :
           /\ Len(groups[g]) = 3
           /\ MaxDepth(g) = 2
           /\ groups[g][1].end = NoTime
           /\ groups[g][3].start = 570
           /\ \A l \in LayoutsOf(groups[g][3].id) :
                  layouts[l].column = 0 /\ layouts[l].total = 2

Finite(q) == q.d > 0

\* C27: every layout has 0 <= column < total and total >= 1, and every
\* placement has a finite width, left >= 0 and left + width <= 100
C27_WithinDayColumn ==
    Called =>
        /\ \A k \in 1..Len(layouts) :
               /\ layouts[k].total >= 1
               /\ 0 <= layouts[k].column
               /\ layouts[k].column < layouts[k].total
        /\ \A k \in 1..Len(result) :
               /\ Finite(result[k].width)
               /\ Finite(result[k].left)
               /\ result[k].left.n >= 0
               /\ result[k].left.n * result[k].width.d
                      + result[k].width.n * result[k].left.d
                  <= 100 * result[k].left.d * result[k].width.d

\* two overlapping events beside an entry without start: the second one is
\* in column 1 of 2 and ends at the right edge
C27_Witness ==
    /\ Called
    /\ \E i \in 1..Len(Items) : ~HasTime(Items[i].start)
    /\ \E k \in 1..Len(layouts) :
           layouts[k].column = 1 /\ layouts[k].total = 2
    /\ \E k \in 1..Len(result) :
           /\ result[k].left = [n |-> 50, d |-> 1]
           /\ result[k].width = [n |-> 50, d |-> 1]

\* what the log holds about task t, in order: <<kind, name>> of each entry
TaskLog(t) ==
    LET Mine(e) == e.task = t
        mine == SelectSeq(log, Mine)
    IN  [i \in 1..Len(mine) |-> <<mine[i].kind, mine[i].name>>]

Started(thunk) ==
    <<<<"thunk", thunk>>, <<"dispatch", ActionPrefix(thunk) \o "_REQUEST">>,
      <<"call", thunk>>>>

\* C28: a thunk with request actions dispatches *_REQUEST before its call,
\* nothing more while the call is pending, and then exactly one of *_SUCCESS
\* (call fulfilled) and *_FAILURE (call rejected) before it settles
C28_RequestThenOneTerminal ==
    \A t \in 1..Len(tasks) :
        LET thunk == tasks[t].thunk
        IN  thunk \in RequestThunks =>
                TaskLog(t) =
                    CASE tasks[t].status = "pending" -> Started(thunk)
                      [] tasks[t].status = "resolved" ->
                           Started(thunk)
                           \o <<<<"dispatch", ActionPrefix(thunk) \o "_SUCCESS">>,
                                <<"resolved", thunk>>>>
                      [] tasks[t].status = "rejected" ->
                           Started(thunk)
                           \o <<<<"fail", thunk>>,
                                <<"dispatch", ActionPrefix(thunk) \o "_FAILURE">>,
                                <<"rejected", thunk>>>>

\* handleEventFormSubmit has created the event and its getCalendarEvents
\* has failed
C28_Witness ==
    /\ handler.name = "handleEventFormSubmit"
    /\ Len(tasks) = 2
    /\ tasks[1].thunk = "createEvent"
    /\ tasks[1].status = "resolved"
    /\ tasks[2].thunk = "getCalendarEvents"
    /\ tasks[2].status = "rejected"
    /\ \E i \in 1..Len(log) : log[i].name = "FETCH_EVENTS_FAILURE"

\* the positions in the log at which a refetch of the event is started
RefetchStarts ==
    {j \in 1..Len(log) : log[j].kind = "thunk" /\ tasks[log[j].task].detached}

\* the positions in the log at which a participant thunk resolves
ParticipantResolves ==
    {i \in 1..Len(log) :
        log[i].kind = "resolved" /\ log[i].name \in ParticipantThunks}

\* C29: a participant thunk starts the getEvent refetch exactly when it
\* resolves, which it does only after its mutation call; a participant thunk
\* that rejects has started none, and addEventParticipant makes no
\* addParticipant call when the lookup has found no user
C29_RefetchIffMutationSucceeded ==
    /\ \A i \in ParticipantResolves :
           /\ i - 3 \in RefetchStarts
           /\ log[i - 3].name = "getEvent"
           /\ \E c \in 1..(i - 4) :
                  /\ log[c].kind = "call"
                  /\ log[c].task = log[i].task
                  /\ log[c].name \in
                         {"addParticipant", "updateParticipant", "removeParticipant"}
           /\ \A f \in 1..Len(log) :
                  log[f].task = log[i].task => log[f].kind # "fail"
    /\ \A j \in RefetchStarts : j + 3 \in ParticipantResolves
    /\ \A t \in 1..Len(tasks) :
           (tasks[t].thunk = "addEventParticipant"
            /\ tasks[t].error = UserNotFound) =>
               \A c \in 1..Len(log) :
                   log[c].task = t => log[c].name # "addParticipant"

\* an edit that changed the colour and added a participant: the colour update
\* has started its refetch, the lookup of the new participant found no user
C29_Witness ==
    /\ handler.name = "handleEventFormSubmit"
    /\ \E t \in 1..Len(tasks) :
           tasks[t].thunk = "updateEventParticipant" /\ tasks[t].status = "resolved"
    /\ \E t \in 1..Len(tasks) :
           tasks[t].thunk = "addEventParticipant" /\ tasks[t].error = UserNotFound
    /\ Cardinality(RefetchStarts) = 1

ParticipantHandlers ==
    {"handleAddParticipant", "handleUpdateParticipantStatus",
     "handleRemoveParticipant"}

\* the positions in the log at which a getEvent of the given kind dispatches
\* FETCH_EVENT_SUCCESS
FetchEventSuccess(detached) ==
    {i \in 1..Len(log) :
        /\ log[i].kind = "dispatch"
        /\ log[i].name = "FETCH_EVENT_SUCCESS"
        /\ tasks[log[i].task].detached = detached}

\* C30: the participant thunk resolves in the turn in which it starts the
\* refetch, before anything of the refetch's outcome; a refetch that rejects
\* leaves the thunk resolved; and while the refetch and the handler's own
\* getEvent are both in flight either of them can be answered first
C30_RefetchNotAwaited ==
    /\ \A j \in RefetchStarts :
           LET d == log[j].task
               p == log[j + 3].task
           IN  /\ log[j + 3].kind = "resolved"
               /\ p # d
               /\ \A i \in 1..Len(log) :
                      (log[i].task = d /\ log[i].kind # "thunk"
                       /\ log[i].name # "FETCH_EVENT_REQUEST"
                       /\ log[i].kind # "call") => i > j + 3
               /\ tasks[d].status = "rejected" => tasks[p].status = "resolved"
    /\ handler.name \in ParticipantHandlers =>
           \A d \in 1..Len(tasks) : \A g \in 1..Len(tasks) :
               (/\ tasks[d].detached
                /\ tasks[d].status = "pending"
                /\ ~tasks[g].detached
                /\ tasks[g].thunk = "getEvent"
                /\ tasks[g].status = "pending") =>
                   (ENABLED ReplySucceeds(d)) /\ (ENABLED ReplySucceeds(g))

\* handleAddParticipant: the FETCH_EVENT_SUCCESS of the handler's own getEvent
\* has arrived before the one of the refetch that was started first
C30_Witness ==
    /\ handler.name = "handleAddParticipant"
    /\ \E i \in FetchEventSuccess(FALSE) : \E j \in FetchEventSuccess(TRUE) :
           /\ i < j
           /\ log[j].task < log[i].task

\* the same handler with the two dispatches in the order of the requests
C30_WitnessInOrder ==
    /\ handler.name = "handleAddParticipant"
    /\ \E i \in FetchEventSuccess(FALSE) : \E j \in FetchEventSuccess(TRUE) :
           /\ j < i
           /\ log[j].task < log[i].task

====
